---- MODULE Spec2Model ----
\* A model of bellman's src/multicore.rs: the lazily resolved NUM_CPUS, the
\* log2_floor utility, Worker::scope on the rayon pool and Worker::compute on
\* the CpuPool (feature "multicore"), and the inline fallback implementation.
EXTENDS Integers, Sequences, FiniteSets, TLC

\* ------------------------------------------------------------------ bounds

\* Width of usize in bits. The targets have 32 or 64; the model keeps the
\* wrap-around and overflow behaviour at a width TLC can enumerate.
WordBits == 5
\* Largest hardware core count num_cpus::get() reports in the model (>= 1).
MaxHw == 2
\* Largest NUM_CPUS (and so pool size) in the scope and compute models.
MaxCpus == 2
\* Largest element count passed to scope.
MaxElements == 4
\* Most sub-tasks spawned inside one scope.
MaxTasks == 3
\* Most calls of compute, and most polls of one handle.
MaxHandles == 2
MaxPolls == 3
\* In the model of nested scopes: most scopes opened inside the outer one,
\* and most sub-tasks spawned in all of them together.
MaxNested == 1
NestTasks == 2

\* ------------------------------------------------------------------ state

VARIABLES
    \* --- process environment and the NUM_CPUS lazy_static
    env,        \* the BELLMAN_NUM_CPUS variable: [kind, s]
    hw,         \* what num_cpus::get() returns on this machine
    once,       \* state of the lazy_static's Once cell
    numCpus,    \* the cell's value: <<>> until initialised, then <<n>>
    envSeen,    \* what env::var returned inside the initializer: <<>> or <<e>>
    tpc,        \* per thread: position in a dereference of NUM_CPUS
    obs,        \* per thread: the set of values its dereferences returned
    \* --- one call of log2_floor
    overflowChecks, \* build profile: TRUE when overflow-checks are compiled in
    lnum,       \* the argument num
    lpow,       \* the local pow
    lpc,        \* position in log2_floor
    lshift,     \* largest shift amount evaluated so far (0: none yet)
    \* --- one call of Worker::scope (feature "multicore")
    elements,   \* the argument elements
    spc,        \* the calling thread: idle, blocked, returned, panicked
    chunkArg,   \* the local chunk_size: <<>> or <<c>>
    injected,   \* TRUE while the scope operation waits in the pool's injector
    wstate,     \* per pool thread: idle, body, join, task, jointask
    chunk,      \* the chunk_size f was invoked with: <<>> or <<c>>
    fret,       \* the value f returned: <<>> or <<r>>
    jobResult,  \* the operation's result handed back to the caller
    sret,       \* the value scope returned: <<>> or <<r>>
    queued,     \* spawned sub-tasks no thread has started
    pending,    \* the scope's count of unfinished jobs (its body included)
    spawned,    \* sub-tasks spawned so far
    spawnedByTask, \* of those, the ones spawned by another sub-task
    counter,    \* the callers' shared counter, incremented by every sub-task
    \* --- Worker::compute and the handles it returns
    strategy,   \* the build: "pooled" (feature multicore) or "inline"
    cpc,        \* the thread calling compute and poll: idle or panicked
    created,    \* handles returned so far (they are numbered 1..created)
    fout,       \* per handle: what its closure f returns
    hstate,     \* per handle: none, queued, running, done
    slot,       \* per handle: the stored result, <<>> or <<o>>, until taken
    runq,       \* the executor's queue of submitted closures
    ethread,    \* per executor thread: the handle whose f it runs, or 0
    plog,       \* per handle: the results of its polls, in order
    \* --- one call of Worker::scope in the inline build (with elements, spc,
    \*     chunk, fret, sret, spawned, spawnedByTask and counter above)
    istack,     \* the calling thread's nested closure calls: "f", then "g"s
    fcalls,     \* how many times f has been invoked
    \* --- Worker::scope with closures that call Worker::scope again (with
    \*     elements, spc, injected and jobResult above for the outer call)
    nstack,     \* per pool thread: the frames it is running, innermost last
    npending,   \* per scope: its count of unfinished jobs (its body included)
    nqueued,    \* per scope: its spawned sub-tasks no thread has started
    nopened,    \* scopes opened inside the outer one (numbered 1..nopened)
    nspawned,   \* sub-tasks spawned so far, in all scopes
    ncounter,   \* sub-tasks finished so far
    ncaller,    \* per scope: <<t>>, the thread that called scope (0: outside the pool)
    nbody       \* per scope: <<w>>, the pool thread that ran its f

cpuVars == <<env, hw, once, numCpus, envSeen, tpc, obs>>
logVars == <<overflowChecks, lnum, lpow, lpc, lshift>>
scopeVars == <<elements, spc, chunkArg, injected, wstate, chunk, fret,
               jobResult, sret, queued, pending, spawned, spawnedByTask, counter>>
compVars == <<strategy, cpc, created, fout, hstate, slot, runq, ethread, plog>>
inlineVars == <<istack, fcalls>>
nestVars == <<nstack, npending, nqueued, nopened, nspawned, ncounter, ncaller, nbody>>
vars == <<cpuVars, logVars, scopeVars, compVars, inlineVars, nestVars>>

\* ------------------------------------------------------------- arithmetic

RECURSIVE Pow2(_)
Pow2(k) == IF k = 0 THEN 1 ELSE 2 * Pow2(k - 1)

\* usize::MAX at the modelled width.
USizeMax == Pow2(WordBits) - 1

\* ------------------------------------------------- the override variable

Threads == {"t1", "t2"}

Digits == <<"0", "1", "2", "3", "4", "5", "6", "7", "8", "9">>

IsDigit(c) == \E i \in 1..Len(Digits) : Digits[i] = c

\* char::to_digit(10) of a decimal digit.
DigitVal(c) == (CHOOSE i \in 1..Len(Digits) : Digits[i] = c) - 1

\* The values given to the override in the model: empty, zero, positive,
\* signed, non-numeric, mixed, and too large for usize.
OverrideStrings ==
    { <<>>, <<"0">>, <<"0", "0">>, <<"+", "0">>, <<"4">>, <<"+", "4">>,
      <<"-", "4">>, <<"0", "2">>, <<"1">>, <<"a">>, <<"4", "a">>, <<"+">>,
      <<"4", "4">>, <<"9", "9", "9">> }

Unset == [kind |-> "unset", s |-> <<>>]
NotUnicode == [kind |-> "notunicode", s |-> <<>>]
EnvValues == {Unset, NotUnicode} \cup {[kind |-> "set", s |-> x] : x \in OverrideStrings}

\* str::parse::<usize>(): <<n>> for Ok(n), <<>> for Err(_). The digits are
\* folded left to right with checked_mul(10) and checked_add(digit); an empty
\* string, a lone sign, a non-digit (for an unsigned type that includes '-')
\* and an overflow of usize are errors; one leading '+' is accepted.
RECURSIVE ParseDigits(_, _)
ParseDigits(s, acc) ==
    IF s = <<>> THEN <<acc>>
    ELSE IF ~IsDigit(Head(s)) THEN <<>>
    ELSE IF acc * 10 > USizeMax THEN <<>>
    ELSE IF acc * 10 + DigitVal(Head(s)) > USizeMax THEN <<>>
    ELSE ParseDigits(Tail(s), acc * 10 + DigitVal(Head(s)))

ParseUsize(s) ==
    IF s = <<>> THEN <<>>
    ELSE IF Head(s) \in {"+", "-"} /\ Tail(s) = <<>> THEN <<>>
    ELSE IF Head(s) = "+" THEN ParseDigits(Tail(s), 0)
    ELSE ParseDigits(s, 0)

\* A resolver that ignores the override.
NumCpusInitNoOverride(e, h) == h

\* The initializer expression of NUM_CPUS, given env::var's answer e and
\* num_cpus::get()'s answer h.
NumCpusInit(e, h) ==
    IF e.kind = "set"
    THEN IF ParseUsize(e.s) # <<>> THEN ParseUsize(e.s)[1] ELSE h
    ELSE h

\* ------------------------------------------------ NUM_CPUS (lazy_static)

\* A dereference that evaluates the initializer again instead of reading the cell.
DerefValueUncached == NumCpusInit(env, hw)

\* What a dereference of the initialised static returns.
DerefValue == numCpus[1]

InitCpus ==
    /\ env \in EnvValues
    /\ hw \in 1..MaxHw
    /\ once = "INCOMPLETE"
    /\ numCpus = <<>>
    /\ envSeen = <<>>
    /\ tpc = [t \in Threads |-> "idle"]
    /\ obs = [t \in Threads |-> {}]

\* Another part of the process sets, changes or removes the variable.
SetEnv(v) ==
    /\ v # env
    /\ env' = v
    /\ UNCHANGED <<hw, once, numCpus, envSeen, tpc, obs>>

\* Thread t dereferences NUM_CPUS.
\*  - cell empty: t wins the Once, enters the initializer and reads the variable;
\*  - initializer running on another thread: t blocks;
\*  - cell full: t reads it.
Deref(t) ==
    /\ tpc[t] = "idle"
    /\ \/ /\ once = "INCOMPLETE"
          /\ once' = "RUNNING"
          /\ envSeen' = <<env>>
          /\ tpc' = [tpc EXCEPT ![t] = "init"]
          /\ UNCHANGED <<env, hw, numCpus, obs>>
       \/ /\ once = "RUNNING"
          /\ tpc' = [tpc EXCEPT ![t] = "wait"]
          /\ UNCHANGED <<env, hw, once, numCpus, envSeen, obs>>
       \/ /\ once = "COMPLETE"
          /\ obs' = [obs EXCEPT ![t] = @ \cup {DerefValue}]
          /\ UNCHANGED <<env, hw, once, numCpus, envSeen, tpc>>

\* The initializing thread parses what it read, stores the value and returns it.
InitFinish(t) ==
    /\ tpc[t] = "init"
    /\ numCpus' = <<NumCpusInit(envSeen[1], hw)>>
    /\ once' = "COMPLETE"
    /\ obs' = [obs EXCEPT ![t] = @ \cup {NumCpusInit(envSeen[1], hw)}]
    /\ tpc' = [tpc EXCEPT ![t] = "idle"]
    /\ UNCHANGED <<env, hw, envSeen>>

\* A thread that blocked on the running initializer wakes up and reads the cell.
WaitDone(t) ==
    /\ tpc[t] = "wait"
    /\ once = "COMPLETE"
    /\ obs' = [obs EXCEPT ![t] = @ \cup {DerefValue}]
    /\ tpc' = [tpc EXCEPT ![t] = "idle"]
    /\ UNCHANGED <<env, hw, once, numCpus, envSeen>>

\* ------------------------------------------------------------ log2_floor

\* The loop gives up in the model after this many iterations (pow is a u32
\* and would otherwise count to 2^32).
MaxPow == 2 * WordBits

\* 1 << k on usize. With overflow checks a shift by k >= WordBits panics
\* (handled by the caller); without them the shift amount wraps modulo the width.
Shl1(k) == Pow2(k % WordBits)

InitLog2 ==
    /\ overflowChecks \in BOOLEAN
    /\ lnum \in 0..USizeMax
    /\ lpow = 0
    /\ lpc = "assert"
    /\ lshift = 0

\* An assertion that is compiled out.
AssertSkipped(n) == TRUE

\* The condition of assert!(num > 0).
AssertPasses(n) == n > 0

\* assert!(num > 0)
L2Assert ==
    /\ lpc = "assert"
    /\ lpc' = IF AssertPasses(lnum) THEN "loop" ELSE "panic_assert"
    /\ UNCHANGED <<overflowChecks, lnum, lpow, lshift>>

\* One evaluation of the loop condition (1 << (pow + 1)) <= num, and the body
\* pow += 1 when it holds.
L2Test ==
    /\ lpc = "loop"
    /\ lpow < MaxPow
    /\ lshift' = IF lpow + 1 > lshift THEN lpow + 1 ELSE lshift
    /\ IF lpow + 1 >= WordBits /\ overflowChecks
       THEN /\ lpc' = "panic_shl"
            /\ lpow' = lpow
       ELSE IF Shl1(lpow + 1) <= lnum
            THEN /\ lpow' = lpow + 1
                 /\ lpc' = "loop"
            ELSE /\ lpow' = lpow
                 /\ lpc' = "done"
    /\ UNCHANGED <<overflowChecks, lnum>>

\* Worker::log_num_cpus: log2_floor(*NUM_CPUS) in the pooled build, the
\* constant 0 in the inline build.
LogNumCpus ==
    /\ lpc = "idle"
    /\ IF strategy = "pooled"
       THEN /\ lnum' = numCpus[1]
            /\ lpc' = "assert"
            /\ lpow' = 0
       ELSE /\ lnum' = lnum
            /\ lpc' = "done"
            /\ lpow' = 0
    /\ UNCHANGED <<overflowChecks, lshift>>

\* ------------------------------------- Worker::scope (feature "multicore")

\* The values the closure f may return.
RetVals == {"r1", "r2"}

\* ThreadPoolBuilder::num_threads(*NUM_CPUS): zero lets rayon choose, which
\* without RAYON_NUM_THREADS is the number of logical cores.
PoolSize == IF numCpus[1] = 0 THEN hw ELSE numCpus[1]

PoolThreads == 1..PoolSize

\* Chunk sizing that divides even when there are fewer elements than CPUs.
ChunkSizeAlwaysDivide(e, n) == e \div n

\* Chunk sizing that divides by one more than the CPU count.
ChunkSizeExtraWorker(e, n) == IF e < n + 1 THEN 1 ELSE e \div (n + 1)

\* Chunk sizing that rounds the quotient up.
ChunkSizeRoundUp(e, n) == IF e < n THEN 1 ELSE (e + n - 1) \div n

\* let chunk_size = if elements < *NUM_CPUS { 1 } else { elements / *NUM_CPUS };
ChunkSize(e, n) == IF e < n THEN 1 ELSE e \div n

\* The division elements / *NUM_CPUS is evaluated with a zero divisor.
DivideByZero(e, n) == ~(e < n) /\ n = 0

\* A join that does not wait for the sub-tasks.
JoinReadyNoWait == TRUE

\* The scope's latch is set: every job counted by the scope has finished.
JoinReady == pending = 0

InitScope ==
    /\ elements \in 0..MaxElements
    /\ spc = "idle"
    /\ chunkArg = <<>>
    /\ injected = FALSE
    /\ wstate = [w \in PoolThreads |-> "idle"]
    /\ chunk = <<>>
    /\ fret = <<>>
    /\ jobResult = <<>>
    /\ sret = <<>>
    /\ queued = 0
    /\ pending = 0
    /\ spawned = 0
    /\ spawnedByTask = 0
    /\ counter = 0

\* Worker::scope on a thread outside the pool: chunk_size is computed (a zero
\* NUM_CPUS panics in the division), then THREAD_POOL.scope hands the
\* operation to the pool and blocks the caller until it has completed.
ScopeCall ==
    /\ spc = "idle"
    /\ IF DivideByZero(elements, numCpus[1])
       THEN /\ spc' = "panicked"
            /\ UNCHANGED <<chunkArg, injected>>
       ELSE /\ chunkArg' = <<ChunkSize(elements, numCpus[1])>>
            /\ injected' = TRUE
            /\ spc' = "blocked"
    /\ UNCHANGED <<elements, wstate, chunk, fret, jobResult, sret, queued,
                   pending, spawned, spawnedByTask, counter>>

\* A pool thread takes the injected operation: it opens the scope (whose job
\* count starts at one, for the body) and invokes f(scope, chunk_size).
BodyStart(w) ==
    /\ injected
    /\ wstate[w] = "idle"
    /\ injected' = FALSE
    /\ wstate' = [wstate EXCEPT ![w] = "body"]
    /\ chunk' = chunkArg
    /\ pending' = 1
    /\ UNCHANGED <<elements, spc, chunkArg, fret, jobResult, sret, queued,
                   spawned, spawnedByTask, counter>>

\* scope.spawn(g), called by f or by a running sub-task: the scope counts one
\* more job and the job is queued on the pool.
Spawn(w) ==
    /\ wstate[w] \in {"body", "task", "jointask"}
    /\ spawned < MaxTasks
    /\ queued' = queued + 1
    /\ pending' = pending + 1
    /\ spawned' = spawned + 1
    /\ spawnedByTask' = IF wstate[w] = "body" THEN spawnedByTask ELSE spawnedByTask + 1
    /\ UNCHANGED <<elements, spc, chunkArg, injected, wstate, chunk, fret,
                   jobResult, sret, counter>>

\* f returns r: the body's job is done and the thread waits on the scope's latch.
BodyReturn(w, r) ==
    /\ wstate[w] = "body"
    /\ fret' = <<r>>
    /\ pending' = pending - 1
    /\ wstate' = [wstate EXCEPT ![w] = "join"]
    /\ UNCHANGED <<elements, spc, chunkArg, injected, chunk, jobResult, sret,
                   queued, spawned, spawnedByTask, counter>>

\* An idle pool thread, or the thread waiting on the latch, starts a queued sub-task.
TaskStart(w) ==
    /\ queued > 0
    /\ wstate[w] \in {"idle", "join"}
    /\ queued' = queued - 1
    /\ wstate' = [wstate EXCEPT ![w] = IF wstate[w] = "idle" THEN "task" ELSE "jointask"]
    /\ UNCHANGED <<elements, spc, chunkArg, injected, chunk, fret, jobResult,
                   sret, pending, spawned, spawnedByTask, counter>>

\* A sub-task increments the counter and ends; the scope counts one job less.
TaskFinish(w) ==
    /\ wstate[w] \in {"task", "jointask"}
    /\ counter' = counter + 1
    /\ pending' = pending - 1
    /\ wstate' = [wstate EXCEPT ![w] = IF wstate[w] = "task" THEN "idle" ELSE "join"]
    /\ UNCHANGED <<elements, spc, chunkArg, injected, chunk, fret, jobResult,
                   sret, queued, spawned, spawnedByTask>>

\* The latch is set: the thread that ran f leaves the scope with f's result.
ScopeExit(w) ==
    /\ wstate[w] = "join"
    /\ JoinReady
    /\ jobResult' = fret
    /\ wstate' = [wstate EXCEPT ![w] = "idle"]
    /\ UNCHANGED <<elements, spc, chunkArg, injected, chunk, fret, sret,
                   queued, pending, spawned, spawnedByTask, counter>>

\* The caller wakes up and Worker::scope returns the result.
ScopeReturn ==
    /\ spc = "blocked"
    /\ jobResult # <<>>
    /\ sret' = jobResult
    /\ spc' = "returned"
    /\ UNCHANGED <<elements, chunkArg, injected, wstate, chunk, fret,
                   jobResult, queued, pending, spawned, spawnedByTask, counter>>

\* ------------------------- Worker::scope called again inside a scope

\* Scope 0 is the one opened by the thread outside the pool.
Scopes == 0..MaxNested

Frame(k, sc) == [k |-> k, s |-> sc]

Top(stk) == stk[Len(stk)]

Pop(stk) == SubSeq(stk, 1, Len(stk) - 1)

\* The closure thread w is running: f of a scope, or a sub-task.
Running(w) == nstack[w] # <<>> /\ Top(nstack[w]).k \in {"body", "task"}

\* A thread that only sleeps while it waits for its scope's latch.
SleepsWhileWaiting == FALSE

\* A pool thread waiting for a scope's latch keeps taking jobs.
HelpsWhileWaiting == TRUE

\* A caller that does not wait for the operation it handed over.
NResultReadyAtOnce == TRUE

\* The outer call's operation has completed on the pool.
NResultReady == jobResult # <<>>

InitNest ==
    /\ nstack = [w \in PoolThreads |-> <<>>]
    /\ npending = [sc \in Scopes |-> 0]
    /\ nqueued = [sc \in Scopes |-> 0]
    /\ nopened = 0
    /\ nspawned = 0
    /\ ncounter = 0
    /\ ncaller = [sc \in Scopes |-> <<>>]
    /\ nbody = [sc \in Scopes |-> <<>>]

\* Worker::scope on a thread outside the pool (ScopeCall above).
NScopeCall ==
    /\ spc = "idle"
    /\ IF DivideByZero(elements, numCpus[1])
       THEN /\ spc' = "panicked"
            /\ UNCHANGED <<injected, ncaller>>
       ELSE /\ injected' = TRUE
            /\ spc' = "blocked"
            /\ ncaller' = [ncaller EXCEPT ![0] = <<0>>]
    /\ UNCHANGED <<jobResult, nstack, npending, nqueued, nopened, nspawned,
                   ncounter, nbody>>

\* An idle pool thread takes the injected operation and invokes f in scope 0.
NBodyStart(w) ==
    /\ injected
    /\ nstack[w] = <<>>
    /\ injected' = FALSE
    /\ nstack' = [nstack EXCEPT ![w] = <<Frame("body", 0)>>]
    /\ npending' = [npending EXCEPT ![0] = 1]
    /\ nbody' = [nbody EXCEPT ![0] = <<w>>]
    /\ UNCHANGED <<spc, jobResult, nqueued, nopened, nspawned, ncounter, ncaller>>

\* The running closure spawns a sub-task into its scope.
NSpawn(w) ==
    /\ Running(w)
    /\ nspawned < NestTasks
    /\ nqueued' = [nqueued EXCEPT ![Top(nstack[w]).s] = @ + 1]
    /\ npending' = [npending EXCEPT ![Top(nstack[w]).s] = @ + 1]
    /\ nspawned' = nspawned + 1
    /\ UNCHANGED <<spc, injected, jobResult, nstack, nopened, ncounter, ncaller, nbody>>

\* The running closure, on pool thread w, calls Worker::scope: the thread is
\* one of THREAD_POOL's, so the operation runs on it directly.
NOpenScope(w) ==
    /\ Running(w)
    /\ nopened < MaxNested
    /\ nopened' = nopened + 1
    /\ nstack' = [nstack EXCEPT ![w] = Append(@, Frame("body", nopened + 1))]
    /\ npending' = [npending EXCEPT ![nopened + 1] = 1]
    /\ ncaller' = [ncaller EXCEPT ![nopened + 1] = <<w>>]
    /\ nbody' = [nbody EXCEPT ![nopened + 1] = <<w>>]
    /\ UNCHANGED <<spc, injected, jobResult, nqueued, nspawned, ncounter>>

\* f returns: its thread starts waiting for the scope's latch.
NBodyReturn(w) ==
    /\ nstack[w] # <<>>
    /\ Top(nstack[w]).k = "body"
    /\ npending' = [npending EXCEPT ![Top(nstack[w]).s] = @ - 1]
    /\ nstack' = [nstack EXCEPT ![w] = Append(Pop(@), Frame("join", Top(@).s))]
    /\ UNCHANGED <<spc, injected, jobResult, nqueued, nopened, nspawned,
                   ncounter, ncaller, nbody>>

\* An idle pool thread, or one waiting for a latch, starts a queued
\* sub-task of any scope.
NTaskStart(w, sc) ==
    /\ nqueued[sc] > 0
    /\ \/ nstack[w] = <<>>
       \/ nstack[w] # <<>> /\ Top(nstack[w]).k = "join" /\ HelpsWhileWaiting
    /\ nqueued' = [nqueued EXCEPT ![sc] = @ - 1]
    /\ nstack' = [nstack EXCEPT ![w] = Append(@, Frame("task", sc))]
    /\ UNCHANGED <<spc, injected, jobResult, npending, nopened, nspawned,
                   ncounter, ncaller, nbody>>

\* A sub-task ends: its scope counts one job less.
NTaskFinish(w) ==
    /\ nstack[w] # <<>>
    /\ Top(nstack[w]).k = "task"
    /\ npending' = [npending EXCEPT ![Top(nstack[w]).s] = @ - 1]
    /\ ncounter' = ncounter + 1
    /\ nstack' = [nstack EXCEPT ![w] = Pop(@)]
    /\ UNCHANGED <<spc, injected, jobResult, nqueued, nopened, nspawned, ncaller, nbody>>

\* The latch of the scope a thread waits for is set: the scope call returns
\* on that thread; for scope 0 the result goes back to the outside caller.
NScopeExit(w) ==
    /\ nstack[w] # <<>>
    /\ Top(nstack[w]).k = "join"
    /\ npending[Top(nstack[w]).s] = 0
    /\ nstack' = [nstack EXCEPT ![w] = Pop(@)]
    /\ jobResult' = IF Top(nstack[w]).s = 0 THEN <<"r1">> ELSE jobResult
    /\ UNCHANGED <<spc, injected, npending, nqueued, nopened, nspawned,
                   ncounter, ncaller, nbody>>

\* The outside caller wakes up and its Worker::scope returns.
NScopeReturn ==
    /\ spc = "blocked"
    /\ NResultReady
    /\ spc' = "returned"
    /\ UNCHANGED <<injected, jobResult, nstack, npending, nqueued, nopened,
                   nspawned, ncounter, ncaller, nbody>>

\* What pool thread w can do.
NThreadStep(w) ==
    \/ NBodyStart(w)
    \/ NSpawn(w)
    \/ NOpenScope(w)
    \/ NBodyReturn(w)
    \/ \E sc \in Scopes : NTaskStart(w, sc)
    \/ NTaskFinish(w)
    \/ NScopeExit(w)

\* The variables of the scope model that the nested model leaves alone.
nestRest == <<elements, chunkArg, wstate, chunk, fret, sret, queued, pending,
              spawned, spawnedByTask, counter>>

\* --------------------------------- Worker::scope (not feature "multicore")

\* A spawn that returns without having run g.
AfterSpawnDeferred(stk) == stk

\* DummyScope::spawn(g) is f(self): g is called at once, on top of its caller.
AfterSpawn(stk) == Append(stk, "g")

\* f(&DummyScope, elements): the chunk_size f receives.
InlineChunk(e) == e

InitInline ==
    /\ elements \in 0..MaxElements
    /\ spc = "idle"
    /\ chunkArg = <<>>
    /\ injected = FALSE
    /\ wstate = <<>>
    /\ chunk = <<>>
    /\ fret = <<>>
    /\ jobResult = <<>>
    /\ sret = <<>>
    /\ queued = 0
    /\ pending = 0
    /\ spawned = 0
    /\ spawnedByTask = 0
    /\ counter = 0
    /\ istack = <<>>
    /\ fcalls = 0

\* Worker::scope calls f on the calling thread.
InlineScopeCall ==
    /\ spc = "idle"
    /\ spc' = "running"
    /\ chunk' = <<InlineChunk(elements)>>
    /\ istack' = <<"f">>
    /\ fcalls' = fcalls + 1
    /\ UNCHANGED <<elements, chunkArg, injected, wstate, fret, jobResult, sret,
                   queued, pending, spawned, spawnedByTask, counter>>

\* The closure that is running (f or a g) calls scope.spawn(g).
InlineSpawn ==
    /\ istack # <<>>
    /\ spawned < MaxTasks
    /\ istack' = AfterSpawn(istack)
    /\ spawned' = spawned + 1
    /\ spawnedByTask' = IF istack[Len(istack)] = "g" THEN spawnedByTask + 1 ELSE spawnedByTask
    /\ UNCHANGED <<elements, spc, chunkArg, injected, wstate, chunk, fret,
                   jobResult, sret, queued, pending, counter, fcalls>>

\* The running g increments the counter and returns, and with it the spawn
\* call that ran it.
InlineTaskReturn ==
    /\ istack # <<>>
    /\ istack[Len(istack)] = "g"
    /\ istack' = SubSeq(istack, 1, Len(istack) - 1)
    /\ counter' = counter + 1
    /\ UNCHANGED <<elements, spc, chunkArg, injected, wstate, chunk, fret,
                   jobResult, sret, queued, pending, spawned, spawnedByTask, fcalls>>

\* f returns r, and Worker::scope returns it.
InlineBodyReturn(r) ==
    /\ istack # <<>>
    /\ istack[Len(istack)] = "f"
    /\ istack' = SubSeq(istack, 1, Len(istack) - 1)
    /\ fret' = <<r>>
    /\ sret' = <<r>>
    /\ spc' = "returned"
    /\ UNCHANGED <<elements, chunkArg, injected, wstate, chunk, jobResult,
                   queued, pending, spawned, spawnedByTask, counter, fcalls>>

\* --------------------------------------- Worker::compute and its handles

Handles == 1..MaxHandles

\* What a closure may return: Ok(v) or Err(e).
Outcomes == {[tag |-> "Ok", v |-> "v1"], [tag |-> "Err", v |-> "e1"]}

NoOutcome == [tag |-> "None", v |-> "-"]

\* The results of a poll: Ok(Async::NotReady), Ok(Async::Ready(v)), Err(e),
\* or a panic of the polling thread. fin records whether f had finished.
NotReady(fin) == [tag |-> "NotReady", v |-> "-", fin |-> fin]
Panicked(fin) == [tag |-> "Panic", v |-> "-", fin |-> fin]

\* A poll that reports an error as a ready value.
ResolveDropError(o, fin) == [tag |-> "Ready", v |-> o.v, fin |-> fin]

\* The poll result for a stored Result o: Ok(v) maps to Ok(Async::Ready(v)),
\* Err(e) to Err(e).
Resolve(o, fin) ==
    [tag |-> IF o.tag = "Ok" THEN "Ready" ELSE "Err", v |-> o.v, fin |-> fin]

\* CpuPool::new(*NUM_CPUS): the executor's threads.
ExecThreads == 1..(IF strategy = "pooled" THEN numCpus[1] ELSE 0)

\* A submission that needs a free executor thread to hand the closure to.
CanSubmitIfIdle == \E x \in ExecThreads : ethread[x] = 0

\* spawn_fn sends the closure down the pool's unbounded channel: it never waits.
CanSubmit == TRUE

InitCompute ==
    /\ strategy \in {"pooled", "inline"}
    /\ cpc = "idle"
    /\ created = 0
    /\ fout = [h \in Handles |-> NoOutcome]
    /\ hstate = [h \in Handles |-> "none"]
    /\ slot = [h \in Handles |-> <<>>]
    /\ runq = <<>>
    /\ plog = [h \in Handles |-> <<>>]

\* Worker::compute(f), f returning o.
\*  pooled: the first use builds CPU_POOL, which panics for a size of zero;
\*          otherwise f is queued on the pool and the handle returned at once.
\*  inline: f runs on the calling thread and its result is wrapped.
Compute(o) ==
    /\ cpc = "idle"
    /\ created < MaxHandles
    /\ IF strategy = "pooled"
       THEN IF numCpus[1] = 0
            THEN /\ cpc' = "panicked"
                 /\ UNCHANGED <<created, fout, hstate, slot, runq>>
            ELSE /\ CanSubmit
                 /\ created' = created + 1
                 /\ fout' = [fout EXCEPT ![created + 1] = o]
                 /\ hstate' = [hstate EXCEPT ![created + 1] = "queued"]
                 /\ runq' = Append(runq, created + 1)
                 /\ UNCHANGED <<cpc, slot>>
       ELSE /\ created' = created + 1
            /\ fout' = [fout EXCEPT ![created + 1] = o]
            /\ hstate' = [hstate EXCEPT ![created + 1] = "done"]
            /\ slot' = [slot EXCEPT ![created + 1] = <<o>>]
            /\ UNCHANGED <<cpc, runq>>
    /\ UNCHANGED <<strategy, ethread, plog>>

\* An executor that shares its threads with the fork-join pool: a thread is
\* free for a closure only while no scope work occupies the pool.
ExecFreeSharedPool(x) ==
    /\ ethread[x] = 0
    /\ \A w \in DOMAIN wstate : wstate[w] = "idle"

\* Executor thread x, one of CPU_POOL's own threads, runs no closure.
ExecFree(x) == ethread[x] = 0

\* A free executor thread takes the next closure and starts running it.
ExecStart(x) ==
    /\ ExecFree(x)
    /\ runq # <<>>
    /\ ethread' = [ethread EXCEPT ![x] = Head(runq)]
    /\ hstate' = [hstate EXCEPT ![Head(runq)] = "running"]
    /\ runq' = Tail(runq)
    /\ UNCHANGED <<strategy, cpc, created, fout, slot, plog>>

\* f returns on the executor thread; its Result, error included, is sent to
\* the handle and the thread is free again.
ExecFinish(x) ==
    /\ ethread[x] # 0
    /\ slot' = [slot EXCEPT ![ethread[x]] = <<fout[ethread[x]]>>]
    /\ hstate' = [hstate EXCEPT ![ethread[x]] = "done"]
    /\ ethread' = [ethread EXCEPT ![x] = 0]
    /\ UNCHANGED <<strategy, cpc, created, fout, runq, plog>>

\* WorkerFuture::poll, which is the inner future's poll.
\*  pooled (CpuFuture): NotReady until the result has been sent; then the
\*      result is taken out; a poll after that finds nothing to take and
\*      panics ("cannot poll CpuFuture twice").
\*  inline (FutureResult): the result is taken out by the first poll; a
\*      second poll panics ("cannot poll Result twice").
Poll(h) ==
    /\ cpc = "idle"
    /\ h <= created
    /\ Len(plog[h]) < MaxPolls
    /\ LET fin == hstate[h] = "done" IN
       IF slot[h] # <<>>
       THEN /\ plog' = [plog EXCEPT ![h] = Append(@, Resolve(slot[h][1], fin))]
            /\ slot' = [slot EXCEPT ![h] = <<>>]
            /\ cpc' = cpc
       ELSE IF fin
            THEN /\ plog' = [plog EXCEPT ![h] = Append(@, Panicked(fin))]
                 /\ cpc' = "panicked"
                 /\ slot' = slot
            ELSE /\ plog' = [plog EXCEPT ![h] = Append(@, NotReady(fin))]
                 /\ cpc' = cpc
                 /\ slot' = slot
    /\ UNCHANGED <<strategy, created, fout, hstate, runq, ethread>>

\* --------------------------------------------------------- specifications

InitLogIdle ==
    /\ overflowChecks = FALSE
    /\ lnum = 1
    /\ lpow = 0
    /\ lpc = "idle"
    /\ lshift = 0

InitCpusIdle ==
    /\ env = Unset
    /\ hw = 1
    /\ once = "INCOMPLETE"
    /\ numCpus = <<>>
    /\ envSeen = <<>>
    /\ tpc = [t \in Threads |-> "off"]
    /\ obs = [t \in Threads |-> {}]

InitScopeIdle ==
    /\ elements = 0
    /\ spc = "off"
    /\ chunkArg = <<>>
    /\ injected = FALSE
    /\ wstate = <<>>
    /\ chunk = <<>>
    /\ fret = <<>>
    /\ jobResult = <<>>
    /\ sret = <<>>
    /\ queued = 0
    /\ pending = 0
    /\ spawned = 0
    /\ spawnedByTask = 0
    /\ counter = 0
    /\ istack = <<>>
    /\ fcalls = 0
    /\ nstack = <<>>
    /\ npending = <<>>
    /\ nqueued = <<>>
    /\ nopened = 0
    /\ nspawned = 0
    /\ ncounter = 0
    /\ ncaller = <<>>
    /\ nbody = <<>>

InitComputeIdle ==
    /\ strategy = "pooled"
    /\ cpc = "off"
    /\ created = 0
    /\ fout = <<>>
    /\ hstate = <<>>
    /\ slot = <<>>
    /\ runq = <<>>
    /\ ethread = <<>>
    /\ plog = <<>>

\* NUM_CPUS already resolved, to any count the override can name.
InitCpusResolved ==
    /\ env = Unset
    /\ hw \in 1..MaxHw
    /\ once = "COMPLETE"
    /\ numCpus \in {<<n>> : n \in 0..MaxCpus}
    /\ envSeen = <<Unset>>
    /\ tpc = [t \in Threads |-> "off"]
    /\ obs = [t \in Threads |-> {}]

\* The resolver: threads dereferencing NUM_CPUS while the variable changes.
Init == InitCpus /\ InitLogIdle /\ InitScopeIdle /\ InitComputeIdle

Next ==
    \/ \E v \in EnvValues : SetEnv(v) /\ UNCHANGED <<logVars, scopeVars, compVars, inlineVars, nestVars>>
    \/ \E t \in Threads : Deref(t) /\ UNCHANGED <<logVars, scopeVars, compVars, inlineVars, nestVars>>
    \/ \E t \in Threads : InitFinish(t) /\ UNCHANGED <<logVars, scopeVars, compVars, inlineVars, nestVars>>
    \/ \E t \in Threads : WaitDone(t) /\ UNCHANGED <<logVars, scopeVars, compVars, inlineVars, nestVars>>

Spec == Init /\ [][Next]_vars

\* One call of log2_floor on any usize, in either build profile.
InitL2 == InitLog2 /\ InitCpusIdle /\ InitScopeIdle /\ InitComputeIdle

NextL2 ==
    \/ L2Assert /\ UNCHANGED <<cpuVars, scopeVars, compVars, inlineVars, nestVars>>
    \/ L2Test /\ UNCHANGED <<cpuVars, scopeVars, compVars, inlineVars, nestVars>>

SpecLog2 == InitL2 /\ [][NextL2]_vars

\* One call of Worker::scope from a thread outside the pool.
InitSc ==
    /\ InitCpusResolved /\ InitScope /\ InitLogIdle /\ InitComputeIdle
    /\ istack = <<>> /\ fcalls = 0
    /\ nstack = <<>> /\ npending = <<>> /\ nqueued = <<>> /\ nopened = 0
    /\ nspawned = 0 /\ ncounter = 0 /\ ncaller = <<>> /\ nbody = <<>>

NextSc ==
    \/ ScopeCall /\ UNCHANGED <<cpuVars, logVars, compVars, inlineVars, nestVars>>
    \/ \E w \in PoolThreads : BodyStart(w) /\ UNCHANGED <<cpuVars, logVars, compVars, inlineVars, nestVars>>
    \/ \E w \in PoolThreads : Spawn(w) /\ UNCHANGED <<cpuVars, logVars, compVars, inlineVars, nestVars>>
    \/ \E w \in PoolThreads : \E r \in RetVals : BodyReturn(w, r) /\ UNCHANGED <<cpuVars, logVars, compVars, inlineVars, nestVars>>
    \/ \E w \in PoolThreads : TaskStart(w) /\ UNCHANGED <<cpuVars, logVars, compVars, inlineVars, nestVars>>
    \/ \E w \in PoolThreads : TaskFinish(w) /\ UNCHANGED <<cpuVars, logVars, compVars, inlineVars, nestVars>>
    \/ \E w \in PoolThreads : ScopeExit(w) /\ UNCHANGED <<cpuVars, logVars, compVars, inlineVars, nestVars>>
    \/ ScopeReturn /\ UNCHANGED <<cpuVars, logVars, compVars, inlineVars, nestVars>>

SpecScope == InitSc /\ [][NextSc]_vars

\* Calls of Worker::compute and polls of the handles, in either build. The
\* inline build has no NUM_CPUS.
InitCo ==
    /\ InitCompute
    /\ IF strategy = "pooled" THEN InitCpusResolved ELSE InitCpusIdle
    /\ ethread = [x \in ExecThreads |-> 0]
    /\ InitLogIdle
    /\ InitScopeIdle

NextCo ==
    \/ \E o \in Outcomes : Compute(o) /\ UNCHANGED <<cpuVars, logVars, scopeVars, inlineVars, nestVars>>
    \/ \E x \in ExecThreads : ExecStart(x) /\ UNCHANGED <<cpuVars, logVars, scopeVars, inlineVars, nestVars>>
    \/ \E x \in ExecThreads : ExecFinish(x) /\ UNCHANGED <<cpuVars, logVars, scopeVars, inlineVars, nestVars>>
    \/ \E h \in Handles : Poll(h) /\ UNCHANGED <<cpuVars, logVars, scopeVars, inlineVars, nestVars>>

SpecCompute == InitCo /\ [][NextCo]_vars

\* One call of Worker::scope in the inline build, which has no NUM_CPUS.
InitIn ==
    /\ InitInline
    /\ nstack = <<>> /\ npending = <<>> /\ nqueued = <<>> /\ nopened = 0
    /\ nspawned = 0 /\ ncounter = 0 /\ ncaller = <<>> /\ nbody = <<>>
    /\ InitCpusIdle
    /\ InitLogIdle
    /\ strategy = "inline"
    /\ cpc = "off"
    /\ created = 0
    /\ fout = <<>>
    /\ hstate = <<>>
    /\ slot = <<>>
    /\ runq = <<>>
    /\ ethread = <<>>
    /\ plog = <<>>

NextIn ==
    \/ InlineScopeCall /\ UNCHANGED <<cpuVars, logVars, compVars, nestVars>>
    \/ InlineSpawn /\ UNCHANGED <<cpuVars, logVars, compVars, nestVars>>
    \/ InlineTaskReturn /\ UNCHANGED <<cpuVars, logVars, compVars, nestVars>>
    \/ \E r \in RetVals : InlineBodyReturn(r) /\ UNCHANGED <<cpuVars, logVars, compVars, nestVars>>

SpecInline == InitIn /\ [][NextIn]_vars

\* One call of Worker::scope from outside the pool, whose closures may call
\* Worker::scope again from pool threads.
InitNe ==
    /\ InitCpusResolved
    /\ hw = 1
    /\ elements = MaxElements
    /\ spc = "idle"
    /\ chunkArg = <<>> /\ injected = FALSE /\ wstate = <<>> /\ chunk = <<>>
    /\ fret = <<>> /\ jobResult = <<>> /\ sret = <<>> /\ queued = 0
    /\ pending = 0 /\ spawned = 0 /\ spawnedByTask = 0 /\ counter = 0
    /\ istack = <<>> /\ fcalls = 0
    /\ InitNest
    /\ InitLogIdle
    /\ InitComputeIdle

NextNe ==
    \/ NScopeCall /\ UNCHANGED <<cpuVars, logVars, compVars, inlineVars, nestRest>>
    \/ \E w \in PoolThreads : NBodyStart(w) /\ UNCHANGED <<cpuVars, logVars, compVars, inlineVars, nestRest>>
    \/ \E w \in PoolThreads : NSpawn(w) /\ UNCHANGED <<cpuVars, logVars, compVars, inlineVars, nestRest>>
    \/ \E w \in PoolThreads : NOpenScope(w) /\ UNCHANGED <<cpuVars, logVars, compVars, inlineVars, nestRest>>
    \/ \E w \in PoolThreads : NBodyReturn(w) /\ UNCHANGED <<cpuVars, logVars, compVars, inlineVars, nestRest>>
    \/ \E w \in PoolThreads : \E sc \in Scopes : NTaskStart(w, sc) /\ UNCHANGED <<cpuVars, logVars, compVars, inlineVars, nestRest>>
    \/ \E w \in PoolThreads : NTaskFinish(w) /\ UNCHANGED <<cpuVars, logVars, compVars, inlineVars, nestRest>>
    \/ \E w \in PoolThreads : NScopeExit(w) /\ UNCHANGED <<cpuVars, logVars, compVars, inlineVars, nestRest>>
    \/ NScopeReturn /\ UNCHANGED <<cpuVars, logVars, compVars, inlineVars, nestRest>>

SpecNest == InitNe /\ [][NextNe]_vars

\* The same under fair scheduling: a pool thread that can take a step
\* eventually takes one, and so does the woken caller. Closures terminate:
\* they spawn and open scopes a bounded number of times and then return.
FairSpecNest ==
    /\ SpecNest
    /\ \A w \in 1..MaxCpus :
          WF_vars(w \in PoolThreads /\ NThreadStep(w) /\ UNCHANGED <<cpuVars, logVars, compVars, inlineVars, nestRest>>)
    /\ WF_vars(NScopeReturn /\ UNCHANGED <<cpuVars, logVars, compVars, inlineVars, nestRest>>)

\* The pooled build with both pools in use: one call of Worker::scope from
\* outside the pool, and calls of Worker::compute, side by side.
InitBo ==
    /\ InitCpusResolved
    /\ hw = 1
    /\ InitScope
    /\ elements = MaxElements
    /\ istack = <<>> /\ fcalls = 0
    /\ nstack = <<>> /\ npending = <<>> /\ nqueued = <<>> /\ nopened = 0
    /\ nspawned = 0 /\ ncounter = 0 /\ ncaller = <<>> /\ nbody = <<>>
    /\ InitCompute
    /\ strategy = "pooled"
    /\ ethread = [x \in ExecThreads |-> 0]
    /\ InitLogIdle

\* Which value f returns and which outcome a closure produces play no part
\* in how the pools schedule them: one of each is followed here.
SomeRet == CHOOSE r \in RetVals : TRUE
SomeOutcome == CHOOSE o \in Outcomes : TRUE

\* One step of fork-join pool thread w.
PoolStep(w) ==
    \/ BodyStart(w)
    \/ Spawn(w)
    \/ BodyReturn(w, SomeRet)
    \/ TaskStart(w)
    \/ TaskFinish(w)
    \/ ScopeExit(w)

\* One step of executor thread x.
ExecStep(x) == ExecStart(x) \/ ExecFinish(x)

\* What a step of the scope leaves alone, and what a step of compute does.
scopeFrame == <<cpuVars, logVars, compVars, inlineVars, nestVars>>
compFrame == <<cpuVars, logVars, scopeVars, inlineVars, nestVars>>

NextBo ==
    \/ ScopeCall /\ UNCHANGED scopeFrame
    \/ \E w \in PoolThreads : BodyStart(w) /\ UNCHANGED scopeFrame
    \/ \E w \in PoolThreads : Spawn(w) /\ UNCHANGED scopeFrame
    \/ \E w \in PoolThreads : BodyReturn(w, SomeRet) /\ UNCHANGED scopeFrame
    \/ \E w \in PoolThreads : TaskStart(w) /\ UNCHANGED scopeFrame
    \/ \E w \in PoolThreads : TaskFinish(w) /\ UNCHANGED scopeFrame
    \/ \E w \in PoolThreads : ScopeExit(w) /\ UNCHANGED scopeFrame
    \/ ScopeReturn /\ UNCHANGED scopeFrame
    \/ Compute(SomeOutcome) /\ UNCHANGED compFrame
    \/ \E x \in ExecThreads : ExecStart(x) /\ UNCHANGED compFrame
    \/ \E x \in ExecThreads : ExecFinish(x) /\ UNCHANGED compFrame

SpecBoth == InitBo /\ [][NextBo]_vars

\* The fork-join pool keeps running: while some pool thread or the woken
\* caller can take a step, one of them eventually does. Nothing is assumed of
\* the executor, whose closures may run for ever.
FairForkJoin ==
    WF_vars((ScopeReturn \/ \E w \in PoolThreads : PoolStep(w))
            /\ UNCHANGED scopeFrame)

\* The executor keeps running: while some executor thread can take a step,
\* one of them eventually does. Nothing is assumed of the fork-join pool,
\* whose scope work may run for ever.
FairExecutor ==
    WF_vars((\E x \in ExecThreads : ExecStep(x)) /\ UNCHANGED compFrame)

\* NUM_CPUS resolved from any value of the override, on any machine.
InitCpusFromEnv ==
    /\ env \in EnvValues
    /\ hw \in 1..MaxHw
    /\ once = "COMPLETE"
    /\ numCpus = <<NumCpusInit(env, hw)>>
    /\ envSeen = <<env>>
    /\ tpc = [t \in Threads |-> "off"]
    /\ obs = [t \in Threads |-> {}]

\* One call of Worker::log_num_cpus, in either build and build profile.
InitLn ==
    /\ strategy \in {"pooled", "inline"}
    /\ IF strategy = "pooled" THEN InitCpusFromEnv ELSE InitCpusIdle
    /\ overflowChecks \in BOOLEAN
    /\ lnum = 1
    /\ lpow = 0
    /\ lpc = "idle"
    /\ lshift = 0
    /\ cpc = "off"
    /\ created = 0
    /\ fout = <<>>
    /\ hstate = <<>>
    /\ slot = <<>>
    /\ runq = <<>>
    /\ ethread = <<>>
    /\ plog = <<>>
    /\ InitScopeIdle

NextLn ==
    \/ LogNumCpus /\ UNCHANGED <<cpuVars, scopeVars, compVars, inlineVars, nestVars>>
    \/ L2Assert /\ UNCHANGED <<cpuVars, scopeVars, compVars, inlineVars, nestVars>>
    \/ L2Test /\ UNCHANGED <<cpuVars, scopeVars, compVars, inlineVars, nestVars>>

SpecLogNumCpus == InitLn /\ [][NextLn]_vars

\* ------------------------------------------------- properties: NUM_CPUS

\* The decimal value of a digit string, as a sum of digit * 10^position.
RECURSIVE Pow10(_)
Pow10(k) == IF k = 0 THEN 1 ELSE 10 * Pow10(k - 1)

RECURSIVE DigitSum(_, _)
DigitSum(s, i) ==
    IF i > Len(s) THEN 0
    ELSE DigitVal(s[i]) * Pow10(Len(s) - i) + DigitSum(s, i + 1)

StripPlus(s) == IF s # <<>> /\ Head(s) = "+" THEN Tail(s) ELSE s

\* s is a decimal numeral: digits only, after at most one leading '+'.
IsNumeral(s) ==
    /\ StripPlus(s) # <<>>
    /\ \A i \in 1..Len(StripPlus(s)) : IsDigit(StripPlus(s)[i])

NumeralValue(s) == DigitSum(StripPlus(s), 1)

\* C5: the resolved CPU count is at least 1 in every reachable state, for
\* every value of the override (absent, any unsigned integer string including
\* "0", any unparsable string) and every hardware core count >= 1.
C5_NumCpusAtLeastOne == numCpus # <<>> => numCpus[1] >= 1

\* C6: the CPU count is resolved once and memoized: every dereference, from
\* any thread, returns the one value stored in the cell, whatever has become
\* of the override variable since.
C6_Memoized ==
    \A t \in Threads : \A v \in obs[t] : numCpus = <<v>>

\* C6 witness: both threads have read the count, and the variable has since
\* been changed to something that would resolve to a different count.
C6_Witness ==
    /\ obs["t1"] # {}
    /\ obs["t2"] # {}
    /\ env # envSeen[1]
    /\ NumCpusInit(env, hw) # numCpus[1]

\* C7: an override of "4" at the first access resolves to 4; an override that
\* parses as a positive integer k resolves to k; an unset or non-numeric
\* override resolves to the hardware core count.
C7_OverrideResolution ==
    numCpus # <<>> =>
        /\ envSeen[1] = [kind |-> "set", s |-> <<"4">>] => numCpus[1] = 4
        /\ ( /\ envSeen[1].kind = "set"
             /\ IsNumeral(envSeen[1].s)
             /\ NumeralValue(envSeen[1].s) \in 1..USizeMax )
           => numCpus[1] = NumeralValue(envSeen[1].s)
        /\ (envSeen[1].kind # "set" \/ ~IsNumeral(envSeen[1].s))
           => numCpus[1] = hw

\* C7 witness: the override was "4" at the first access, the count is 4 on a
\* machine with another core count, and the variable has been removed since.
C7_Witness ==
    /\ numCpus = <<4>>
    /\ envSeen = << [kind |-> "set", s |-> <<"4">>] >>
    /\ env = Unset
    /\ hw # 4
    /\ obs["t2"] = {4}

\* ------------------------------------------------ properties: log2_floor

\* C10: for every n >= 1, log2_floor(n) returns the largest p with 2^p <= n.
C10_Log2FloorIsFloorLog2 ==
    (lnum >= 1 /\ lpc \in {"done", "panic_assert", "panic_shl"}) =>
        /\ lpc = "done"
        /\ Pow2(lpow) <= lnum
        /\ lnum < Pow2(lpow + 1)

\* ---------------------------------------------- properties: Worker::scope

\* C1: when scope has returned, it has returned the value f returned, and
\* every sub-task spawned inside the region, by f or by another sub-task, has
\* run to completion: the counter equals the number of sub-tasks spawned.
C1_ForkJoinBarrier ==
    spc = "returned" =>
        /\ fret # <<>>
        /\ sret = fret
        /\ counter = spawned
        /\ queued = 0
        /\ \A w \in PoolThreads : wstate[w] \notin {"body", "task", "jointask"}

\* C1 witness: scope has returned from a region on a pool of two threads in
\* which f and a sub-task both spawned sub-tasks.
C1_Witness ==
    /\ spc = "returned"
    /\ PoolSize >= 2
    /\ spawned >= 2
    /\ spawnedByTask >= 1
    /\ spawned > spawnedByTask

\* C8: the chunk_size passed to f is 1 when elements < NUM_CPUS and
\* floor(elements / NUM_CPUS) otherwise (the c with c*N <= E < (c+1)*N).
C8_ChunkSizing ==
    chunk # <<>> =>
        /\ elements < numCpus[1] => chunk[1] = 1
        /\ elements >= numCpus[1] =>
              /\ chunk[1] * numCpus[1] <= elements
              /\ elements < (chunk[1] + 1) * numCpus[1]

\* C8 witness: f has been invoked with fewer elements than CPUs.
C8_Witness == chunk # <<>> /\ elements < numCpus[1] /\ elements > 0

\* C9, as claimed: for all E >= 0 and P >= 1, chunk_size * P <= E.
C9_ChunkTimesPoolAtMostElements ==
    (chunk # <<>> /\ numCpus[1] >= 1) => chunk[1] * numCpus[1] <= elements

\* C9, amended: for all E >= P >= 1, chunk_size * P <= E; for E < P the
\* chunk size is 1, so chunk_size * P = P > E.
C9_ChunkTimesPoolAmended ==
    (chunk # <<>> /\ numCpus[1] >= 1) =>
        /\ elements >= numCpus[1] => chunk[1] * numCpus[1] <= elements
        /\ elements < numCpus[1] => chunk[1] * numCpus[1] = numCpus[1]

\* C9 witness: f has been invoked with more elements than CPUs, which the
\* CPU count does not divide.
C9_Witness ==
    /\ chunk # <<>>
    /\ numCpus[1] >= 2
    /\ elements > numCpus[1]
    /\ elements % numCpus[1] # 0

\* -------------------------------------------- properties: Worker::compute

\* The first poll of handle h that did not return NotReady is its i-th.
FirstTerminal(h, i) ==
    /\ i \in 1..Len(plog[h])
    /\ plog[h][i].tag # "NotReady"
    /\ \A j \in 1..(i - 1) : plog[h][j].tag = "NotReady"

\* C2: polling a handle until it is no longer pending yields Ready(Ok(v))
\* when f returned Ok(v) and Err(e) when f returned Err(e), in the pooled and
\* in the inline build alike; the error reaches nobody but the poller: the
\* thread that called compute is unharmed and the executor thread lives on.
C2_ResultFidelity ==
    /\ \A h \in Handles : \A i \in 1..MaxPolls :
          FirstTerminal(h, i) =>
             /\ fout[h].tag = "Ok" => (plog[h][i].tag = "Ready" /\ plog[h][i].v = fout[h].v)
             /\ fout[h].tag = "Err" => (plog[h][i].tag = "Err" /\ plog[h][i].v = fout[h].v)
    /\ (\A h \in Handles : plog[h] = <<>>) /\ created > 0 => cpc = "idle"
    /\ DOMAIN ethread = ExecThreads

\* C2 witness: in the pooled build a handle whose f returned an error was
\* polled while pending and then resolved to that error.
C2_Witness ==
    /\ strategy = "pooled"
    /\ \E h \in Handles :
          /\ fout[h].tag = "Err"
          /\ Len(plog[h]) = 2
          /\ plog[h][1].tag = "NotReady"
          /\ plog[h][2].tag = "Err"

\* C3: once a poll of a handle has returned a terminal outcome, every later
\* poll of that handle returns the same outcome again, and never panics.
C3_RepollReturnsSameOutcome ==
    \A h \in Handles : \A i, j \in 1..Len(plog[h]) :
        (i < j /\ plog[h][i].tag # "NotReady") =>
            (plog[h][j].tag = plog[h][i].tag /\ plog[h][j].v = plog[h][i].v)

\* C4: in the pooled build compute never blocks: whatever the executor's
\* threads are doing, the call is able to return (a handle, or the panic of a
\* zero-sized pool), and a poll is able to return too, with NotReady whenever
\* f had not finished.
C4_ComputeNeverBlocks ==
    strategy = "pooled" =>
        /\ (cpc = "idle" /\ created < MaxHandles) =>
              \A o \in Outcomes : ENABLED Compute(o)
        /\ \A h \in Handles :
              (cpc = "idle" /\ h <= created /\ Len(plog[h]) < MaxPolls) => ENABLED Poll(h)
        /\ \A h \in Handles : \A i \in 1..Len(plog[h]) :
              ~plog[h][i].fin => plog[h][i].tag = "NotReady"

\* C4 witness: every executor thread is busy with an earlier task, and a
\* handle obtained meanwhile is still queued and has been polled: NotReady.
C4_Witness ==
    /\ strategy = "pooled"
    /\ ExecThreads # {}
    /\ \A x \in ExecThreads : ethread[x] # 0
    /\ \E h \in Handles :
          /\ hstate[h] = "queued"
          /\ plog[h] = <<NotReady(FALSE)>>

\* C11: log2_floor(0) fails the assertion before any loop iteration (no
\* shift is evaluated, pow is untouched) and never returns a value.
C11_ZeroFailsAssertion ==
    lnum = 0 =>
        /\ lpc \in {"assert", "panic_assert"}
        /\ lpow = 0
        /\ lshift = 0

\* C11 witness: the call with 0 has ended in the failed assertion.
C11_Witness == lnum = 0 /\ lpc = "panic_assert"

\* C18: for every n in 1..2^w - 1 the loop never evaluates 1 << k with
\* k >= w, and a call that has ended has returned; for n >= 2^(w-1) it has
\* returned w - 1.
C18_NoShiftOverflow ==
    lnum >= 1 =>
        /\ lshift < WordBits
        /\ lpc \notin {"panic_assert", "panic_shl"}
        /\ (lpc = "done" /\ lnum >= Pow2(WordBits - 1)) => lpow = WordBits - 1

\* ------------------------------------- properties: partitioning by scope

\* The number of chunks of size c needed to cover e elements.
CeilDiv(e, c) == (e + c - 1) \div c

\* C17: the chunk_size passed to f is at least 1, and the number of chunks
\* of that size needed to cover the elements is at most 2 * NUM_CPUS - 1.
C17_ChunkCountBound ==
    chunk # <<>> =>
        /\ chunk[1] >= 1
        /\ CeilDiv(elements, chunk[1]) <= 2 * numCpus[1] - 1

\* C17 witness: f has been invoked with a chunk_size that needs 2N - 1
\* chunks, which is more than N.
C17_Witness ==
    /\ chunk # <<>>
    /\ numCpus[1] >= 2
    /\ CeilDiv(elements, chunk[1]) = 2 * numCpus[1] - 1
    /\ CeilDiv(elements, chunk[1]) > numCpus[1]

\* ---------------------------------------------- properties: log_num_cpus

\* C13: log_num_cpus is always well defined: in the pooled build it returns
\* floor(log2(NUM_CPUS)) and never trips log2_floor's assertion, whatever the
\* resolver produced; in the inline build it returns 0.
C13_LogNumCpusDefined ==
    lpc \in {"done", "panic_assert", "panic_shl"} =>
        /\ lpc = "done"
        /\ strategy = "pooled" =>
              (Pow2(lpow) <= numCpus[1] /\ numCpus[1] < Pow2(lpow + 1))
        /\ strategy = "inline" => lpow = 0

\* ------------------------------------- properties: scope, inline build

\* The number of g frames among the calling thread's nested calls: the spawn
\* calls that have not returned yet.
SpawnsInProgress == Cardinality({i \in 1..Len(istack) : istack[i] = "g"})

\* C12: in the inline build scope invokes f exactly once, on the calling
\* thread, with chunk_size = elements; every sub-task that has started and
\* not finished belongs to a spawn call that has not returned, nothing is
\* handed to a pool, and when scope returns no sub-task is outstanding.
C12_InlineScope ==
    /\ chunk # <<>> => chunk[1] = elements
    /\ fcalls = (IF spc = "idle" THEN 0 ELSE 1)
    /\ spawned - counter = SpawnsInProgress
    /\ queued = 0 /\ pending = 0 /\ ~injected
    /\ spc = "returned" => (istack = <<>> /\ counter = spawned /\ sret = fret)

\* C12 witness: scope has returned after f spawned a sub-task that itself
\* spawned one, with elements > 1.
C12_Witness ==
    /\ spc = "returned"
    /\ strategy = "inline"
    /\ elements > 1
    /\ spawned >= 2
    /\ spawnedByTask >= 1

\* ------------------------------------- properties: scope inside a scope

\* C15: under fair scheduling of the pool threads, with closures that
\* terminate, a call of scope that has entered the fork-join region
\* eventually returns, for every pool size (one thread included) and with
\* closures that call scope again from pool threads.
C15_ScopeTerminates == (spc = "blocked") ~> (spc = "returned")

\* C15 witness: on a pool of one thread the outer scope has returned after a
\* scope was opened inside it and sub-tasks ran.
C15_Witness ==
    /\ spc = "returned"
    /\ PoolSize = 1
    /\ nopened >= 1
    /\ ncounter >= 1

\* C16, as claimed: f runs on the thread that called scope.
C16_BodyOnCallingThread ==
    \A sc \in Scopes : nbody[sc] # <<>> => nbody[sc] = ncaller[sc]

\* Some frame of scope sc is on some pool thread's stack.
InScope(sc) ==
    \E w \in PoolThreads : \E i \in 1..Len(nstack[w]) : nstack[w][i].s = sc

\* C16, amended: f always runs on a thread of the shared pool: on the calling
\* thread when the caller is a pool thread, and otherwise on a pool thread to
\* which the operation is handed, while the calling thread stays blocked
\* until f and its sub-tasks have finished.
C16_BodyOnPoolThread ==
    /\ \A sc \in Scopes : nbody[sc] # <<>> =>
          /\ nbody[sc][1] \in PoolThreads
          /\ ncaller[sc] # <<>>
          /\ ncaller[sc][1] \in PoolThreads => nbody[sc] = ncaller[sc]
    /\ (InScope(0) \/ npending[0] > 0 \/ injected) => spc = "blocked"

\* C16 witness: the outside caller is blocked while f runs on a pool thread,
\* and a scope opened from a pool thread ran its f on that same thread.
C16_Witness ==
    /\ spc = "blocked"
    /\ nbody[0] # <<>>
    /\ InScope(0)
    /\ nopened >= 1
    /\ nbody[1] = ncaller[1]
    /\ nbody[1] # <<>>

\* --------------------------------------- properties: the two pools

\* C14: the two pools are independent. If only the fork-join pool makes
\* progress (the executor's closures may occupy its threads for ever), a
\* scope call still returns; if only the executor makes progress (scope work
\* may occupy the fork-join threads for ever), every submitted closure still
\* runs and resolves its handle.
C14_PoolsIndependent ==
    /\ FairForkJoin => ((spc = "blocked") ~> (spc = "returned"))
    /\ FairExecutor =>
          \A h \in Handles : (hstate[h] = "queued") ~> (hstate[h] = "done")

\* C14 witness: every executor thread is occupied by a closure and every
\* fork-join thread by scope work, while an earlier closure has resolved its
\* handle and the scope call is under way.
C14_Witness ==
    /\ spc = "blocked"
    /\ ExecThreads # {}
    /\ \A x \in ExecThreads : ethread[x] # 0
    /\ \A w \in PoolThreads : wstate[w] # "idle"
    /\ \E h \in Handles : hstate[h] = "done"

====
